---- MODULE Spec2Model ----
(***************************************************************************)
(* A model of scripts/auto_concept_car.py: the concept-car page generator. *)
(*                                                                         *)
(* Text is a sequence of atoms.  An atom is a piece of text no operation   *)
(* of the program looks inside: a sentinel marker, the indentation the     *)
(* index updater inserts, a brace, a space, a placeholder name, a word.    *)
(* Positions are Python's: 0-based, find() answers -1 for "absent".        *)
(***************************************************************************)
EXTENDS Integers, Sequences, FiniteSets, TLC

VARIABLES
    index,      \* content of INDEX_FILE (text), or NoFile
    template,   \* content of OPTIONAL_TEMPLATE (text), or NoFile
    dirs,       \* the directories ensure_dirs has created
    images,     \* files of IMAGES_DIR: a set of [name, content]
    articles,   \* files of ARTICLES_DIR: a set of [name, content]
    future,     \* FUTURE_MODE
    proc,       \* per invocation of main: its position and local variables
    wrote,      \* per invocation: the files it has written (history)
    issued,     \* per invocation: the image requests it has issued (history)
    feed,       \* cards whose index write completed, oldest first (history)
    nruns,      \* invocations started so far
    call,       \* the last direct call of insert_card_into_index
    ncalls,     \* number of direct calls made so far
    rcall,      \* a direct call of render: template, context, result
    scall       \* a direct call of random_specs: category, result

fsvars == <<index, template, dirs, images, articles>>
mainvars == <<fsvars, future, proc, wrote, issued, feed, nruns>>
vars == <<mainvars, call, ncalls, rcall, scall>>

\* the content of a path that is no file: a text no file holds
NoFile == <<"<no file>">>

----------------------------------------------------------------------------
(* Bounds of the model *)

MaxDoc == 3         \* longest initial index document, in atoms
MaxCardLen == 1     \* longest card handed to a direct call, in atoms
MaxCalls == 2       \* direct calls of insert_card_into_index in a row
MaxPieces == 3      \* longest template handed to a direct call of render, in pieces
MaxRuns == 2        \* invocations of main in a row

----------------------------------------------------------------------------
(* Text helpers: Python's str.find and slicing *)

\* s[i:j] of Python, 0 <= i <= j <= len(s)
Slice(s, i, j) == SubSeq(s, i + 1, j)

\* pat occurs in s at 0-based position i
IsAt(s, pat, i) == /\ i + Len(pat) <= Len(s)
                   /\ \/ pat = <<>>
                      \/ s[i + 1] = pat[1] /\ Slice(s, i, i + Len(pat)) = pat

\* s.find(pat, from): lowest position >= from where pat occurs, else -1
FindFrom(s, pat, from) ==
    LET hits == {i \in from..(Len(s) - Len(pat)) : IsAt(s, pat, i)}
    IN  IF hits = {} THEN -1
        ELSE CHOOSE i \in hits : \A j \in hits : i <= j

\* s.find(pat)
Find(s, pat) == FindFrom(s, pat, 0)

\* all texts over the atoms A of length 0..n
TextsUpTo(A, n) == UNION {[1..k -> A] : k \in 0..n}

----------------------------------------------------------------------------
(* Index updater: insert_card_into_index *)

FEED_START == <<"<!-- FEED:start -->">>
FEED_END == <<"<!-- FEED:end -->">>
INDENT == <<"\n      ">>

\* variant: the order of the two markers is not tested
MarkersMissingNoOrder(html) ==
    Find(html, FEED_START) = -1 \/ Find(html, FEED_END) = -1

\* the condition of the raise RuntimeError(...)
MarkersMissing(html) ==
    LET start == Find(html, FEED_START)
        end == Find(html, FEED_END)
    IN  start = -1 \/ end = -1 \/ end < start

\* variant: the card is put in front of the end marker
InsertAtEnd(html, card_html) ==
    LET end == Find(html, FEED_END)
    IN  Slice(html, 0, end) \o INDENT \o card_html \o Slice(html, end, Len(html))

\* variant: the card is put in front of the start marker
InsertBeforeStart(html, card_html) ==
    LET start == Find(html, FEED_START)
    IN  Slice(html, 0, start) \o INDENT \o card_html \o Slice(html, start, Len(html))

\* new_html of insert_card_into_index, for html that passed the marker test
NewHtml(html, card_html) ==
    LET start == Find(html, FEED_START)
        insertion_point == start + Len(FEED_START)
    IN  Slice(html, 0, insertion_point) \o INDENT \o card_html
            \o Slice(html, insertion_point, Len(html))

----------------------------------------------------------------------------
(* Naming: invent_name, slugify, the file names of main *)

\* SYLLABLES, cut to its first two entries
SYLLABLES == <<"Qy", "Xeno">>

CarTypes == {"sport", "berline"}

\* draws of random.sample(SYLLABLES, k=2): two different syllables, in order
SyllablePairs ==
    {ij \in (1..Len(SYLLABLES)) \X (1..Len(SYLLABLES)) : ij[1] # ij[2]}

\* invent_name(car_type), for one draw of the two syllables
invent_name(car_type, ij) ==
    <<SYLLABLES[ij[1]], SYLLABLES[ij[2]], " ", IF car_type = "sport" THEN "One" ELSE "Lux">>

\* str.lower on an atom
Lower(a) ==
    CASE a = "Qy" -> "qy"
      [] a = "Xeno" -> "xeno"
      [] a = "One" -> "one"
      [] a = "Lux" -> "lux"
      [] OTHER -> a

IsSpace(a) == a \in {" ", "\n", "\t", "\n      ", "\n    "}
\* [^\w\s-]: what the first re.sub of slugify deletes
IsPunct(a) == a \in {".", ",", "!", "'", "/", "{", "}"}

RECURSIVE LStrip(_)
LStrip(t) == IF t # <<>> /\ IsSpace(Head(t)) THEN LStrip(Tail(t)) ELSE t
RECURSIVE RStrip(_)
RStrip(t) == IF t # <<>> /\ IsSpace(t[Len(t)]) THEN RStrip(SubSeq(t, 1, Len(t) - 1)) ELSE t

\* re.sub(r"[\s_]+", "-", text)
RECURSIVE HyphenateRuns(_)
HyphenateRuns(t) ==
    IF t = <<>> THEN <<>>
    ELSE IF IsSpace(Head(t)) \/ Head(t) = "_"
         THEN IF Len(t) > 1 /\ (IsSpace(t[2]) \/ t[2] = "_")
              THEN HyphenateRuns(Tail(t))
              ELSE <<"-">> \o HyphenateRuns(Tail(t))
         ELSE <<Head(t)>> \o HyphenateRuns(Tail(t))

slugify(text) ==
    LET kept == SelectSeq(text, LAMBDA a : ~IsPunct(a))
        stripped == RStrip(LStrip(kept))
        lowered == [i \in 1..Len(stripped) |-> Lower(stripped[i])]
    IN  HyphenateRuns(lowered)

\* the clock: now_paris(), of which only the day of the month varies, over an
\* odd and an even day
Clock == {[year |-> 2025, month |-> 1, day |-> d] : d \in {1, 2}}

Pad2(n) == IF n < 10 THEN "0" \o ToString(n) ELSE ToString(n)

\* now.strftime("%Y-%m-%d")
DatePrefix(now) == <<ToString(now.year) \o "-" \o Pad2(now.month) \o "-" \o Pad2(now.day)>>

FR_MONTHS == <<"janvier", "fevrier", "mars", "avril", "mai", "juin", "juillet",
               "aout", "septembre", "octobre", "novembre", "decembre">>

format_date_fr(dt) ==
    <<ToString(dt.day) \o " " \o FR_MONTHS[dt.month] \o " " \o ToString(dt.year)>>

IMAGE_EXT == <<".png">>

CarTypeOf(now) == IF now.day % 2 = 0 THEN "sport" ELSE "berline"

\* variant: the third image is saved under the name of the second
ImageNameClash(now, model_name, k) ==
    DatePrefix(now) \o <<"-">> \o slugify(model_name)
        \o <<IF k = 1 THEN "-01" ELSE "-02">> \o IMAGE_EXT

\* img01.name, img02.name, img03.name
ImageName(now, model_name, k) ==
    DatePrefix(now) \o <<"-">> \o slugify(model_name)
        \o <<CASE k = 1 -> "-01" [] k = 2 -> "-02" [] OTHER -> "-03">> \o IMAGE_EXT

\* article.name
ArticleName(now, model_name) ==
    DatePrefix(now) \o <<"-">> \o slugify(model_name) \o <<".html">>

----------------------------------------------------------------------------
(* Spec randomizer: random_specs.  Decimal numbers are held in thousandths. *)

\* draws of random.uniform(a, b): both ends and the first rounding tie
UniformDraws(a, b, unit) == {a, a + (unit \div 2), b}

\* round(x, n) with unit = 10^(3-n) thousandths; at a tie the binary value of
\* the float decides, so both neighbours are possible
RoundTo(x, unit) ==
    LET low == unit * (x \div unit)
        r == x % unit
    IN  IF 2 * r < unit THEN {low}
        ELSE IF 2 * r > unit THEN {low + unit}
        ELSE {low, low + unit}

\* variant: round() replaced by adding one unit
RoundedUniformOff(a, b, unit) == {x + unit : x \in UniformDraws(a, b, unit)}

\* round(random.uniform(a, b), n)
RoundedUniform(a, b, unit) == UNION {RoundTo(x, unit) : x \in UniformDraws(a, b, unit)}

\* draws of random.randint(a, b)
RandInt(a, b) == {a, b}

Zero100Values(car_type, fm) ==
    IF car_type = "sport"
    THEN IF fm THEN RoundedUniform(1800, 2400, 10) ELSE RoundedUniform(2600, 3200, 100)
    ELSE IF fm THEN RoundedUniform(2800, 3600, 10) ELSE RoundedUniform(3800, 4800, 100)

VmaxValues(car_type, fm) ==
    IF car_type = "sport"
    THEN IF fm THEN RandInt(360, 420) ELSE RandInt(310, 340)
    ELSE IF fm THEN RandInt(310, 360) ELSE RandInt(260, 300)

PowerValues(car_type, fm) ==
    IF car_type = "sport"
    THEN IF fm THEN RandInt(1100, 1600) ELSE RandInt(750, 900)
    ELSE IF fm THEN RandInt(800, 1100) ELSE RandInt(500, 680)

AutonomyValues(fm) == IF fm THEN RandInt(950, 1200) ELSE RandInt(700, 950)

SeatsOf(car_type) == IF car_type = "sport" THEN 2 ELSE 4

TagOf(car_type, fm) ==
    IF car_type = "sport"
    THEN IF fm THEN "Hypercar" ELSE "Supercar"
    ELSE IF fm THEN "Berline neo-luxe" ELSE "Berline"

DimsValues ==
    [length : RoundedUniform(4700, 5150, 10),
     width : RoundedUniform(1920, 2060, 10),
     height : RoundedUniform(1170, 1400, 10),
     wheelbase : RoundedUniform(2850, 3150, 10)]

\* every sheet random_specs(car_type) can return
random_specs(car_type, fm) ==
    [zero100 : Zero100Values(car_type, fm),
     vmax : VmaxValues(car_type, fm),
     power_hp : PowerValues(car_type, fm),
     autonomy : AutonomyValues(fm),
     seats : {SeatsOf(car_type)},
     tag : {TagOf(car_type, fm)},
     dims : DimsValues]

Lowest(S) == CHOOSE x \in S : \A y \in S : x <= y
Highest(S) == CHOOSE x \in S : \A y \in S : x >= y

\* the sheets a run of main is checked with: all fields lowest, all fields highest
SheetWith(car_type, fm, highest) ==
    LET Pick(S) == IF highest THEN Highest(S) ELSE Lowest(S) IN
    [zero100 |-> Pick(Zero100Values(car_type, fm)),
     vmax |-> Pick(VmaxValues(car_type, fm)),
     power_hp |-> Pick(PowerValues(car_type, fm)),
     autonomy |-> Pick(AutonomyValues(fm)),
     seats |-> SeatsOf(car_type),
     tag |-> TagOf(car_type, fm),
     dims |-> [length |-> Pick(RoundedUniform(4700, 5150, 10)),
               width |-> Pick(RoundedUniform(1920, 2060, 10)),
               height |-> Pick(RoundedUniform(1170, 1400, 10)),
               wheelbase |-> Pick(RoundedUniform(2850, 3150, 10))]]

\* PROPULSIONS, cut to its first two entries
PROPULSIONS ==
    <<[tag |-> "Hydrogene solide", desc |-> "pile a combustible", emoji |-> "ice"],
      [tag |-> "Electrique solide", desc |-> "pack batterie solide", emoji |-> "battery"]>>

\* the draws of the random module a run of main is followed with: the first
\* syllable pair with the lowest sheet and the first propulsion, the second
\* pair with the highest sheet and the second propulsion
DrawsOfMain(car_type, fm) ==
    {[model_name |-> invent_name(car_type, <<1, 2>>),
      specs |-> SheetWith(car_type, fm, FALSE), propulsion |-> PROPULSIONS[1]],
     [model_name |-> invent_name(car_type, <<2, 1>>),
      specs |-> SheetWith(car_type, fm, TRUE), propulsion |-> PROPULSIONS[2]]}

----------------------------------------------------------------------------
(* Article renderer: render, str() of the context's values *)

\* a value of a context: an int n, a float n (in thousandths) or a str s
Int_(n) == [t |-> "int", n |-> n, s |-> <<>>]
Float_(x) == [t |-> "float", n |-> x, s |-> <<>>]
Str_(text) == [t |-> "str", n |-> 0, s |-> text]

\* str(v): an int in decimal, a float in its shortest form, a str as it is
Str(val) ==
    CASE val.t = "int" -> <<ToString(val.n)>>
      [] val.t = "float" ->
            LET whole == val.n \div 1000
                frac == val.n % 1000
            IN  IF frac % 100 = 0
                THEN <<ToString(whole), ".", ToString(frac \div 100)>>
                ELSE <<ToString(whole), ".",
                       ToString(frac \div 100) \o ToString((frac % 100) \div 10)>>
      [] OTHER -> val.s

\* "{{ " + k + " }}"
Token(k) == <<"{", "{", " ", k, " ", "}", "}">>

\* s.replace(old, new) from position i on: leftmost occurrences, not overlapping
RECURSIVE ReplaceFrom(_, _, _, _)
ReplaceFrom(s, old, new, i) ==
    LET j == FindFrom(s, old, i)
    IN  IF j = -1 THEN Slice(s, i, Len(s))
        ELSE Slice(s, i, j) \o new \o ReplaceFrom(s, old, new, j + Len(old))

\* variant: only the first occurrence is replaced
ReplaceFirst(s, old, new) ==
    LET i == Find(s, old)
    IN  IF i = -1 THEN s ELSE Slice(s, 0, i) \o new \o Slice(s, i + Len(old), Len(s))

\* s.replace(old, new), old not empty
Replace(s, old, new) == ReplaceFrom(s, old, new, 0)

\* render(tpl, ctx); ctx is the dict as the sequence of its items, in order
RECURSIVE render(_, _)
render(tpl, ctx) ==
    IF ctx = <<>> THEN tpl
    ELSE render(Replace(tpl, Token(Head(ctx).k), Str(Head(ctx).v)), Tail(ctx))

\* DEFAULT_TEMPLATE: its placeholders in order; the text between two of them is
\* one atom named by its place in the source, "}}" of the style sheet kept
DEFAULT_TEMPLATE ==
    <<"text@228:0-233:9">> \o Token("MODEL") \o <<"text@233:20-234:36">>
    \o Token("MODEL") \o <<"text@234:47-234:58">> \o Token("PROP_TAG")
    \o <<"text@234:72-234:85">> \o Token("ZERO100")
    \o <<"text@234:98-234:107">> \o Token("VMAX")
    \o <<"text@234:117-234:124">> \o Token("AUTONOMY")
    \o <<"text@234:138-256:63">> \o <<"}", "}">>
    \o <<"text@256:65-266:342">> \o <<"}", "}">>
    \o <<"text@266:344-288:18">> \o Token("IMG01")
    \o <<"text@288:29-288:36">> \o Token("MODEL")
    \o <<"text@288:47-291:14">> \o Token("MODEL")
    \o <<"text@291:25-292:30">> \o Token("PROP_EMOJI")
    \o <<" ">> \o Token("PROP_TAG")
    \o <<"text@292:61-293:32">> \o Token("AUTONOMY")
    \o <<"text@293:46-301:19">> \o Token("MODEL")
    \o <<"text@301:30-301:48">> \o Token("KIND_FR")
    \o <<"text@301:61-301:85">> \o Token("PROP_TAG")
    \o <<"text@301:99-301:144">> \o Token("PROP_DESC")
    \o <<"text@301:159-305:73">> \o Token("ZERO100")
    \o <<"text@305:86-306:74">> \o Token("VMAX")
    \o <<"text@306:84-307:81">> \o Token("POWER_HP")
    \o <<"text@307:95-308:79">> \o Token("AUTONOMY")
    \o <<"text@308:93-315:33">> \o Token("PROP_DESC")
    \o <<"text@315:48-360:20">> \o Token("IMG02")
    \o <<"text@360:31-360:38">> \o Token("MODEL")
    \o <<"text@360:49-361:20">> \o Token("IMG03")
    \o <<"text@361:31-361:38">> \o Token("MODEL")
    \o <<"text@361:49-367:66">> \o Token("SEATS")
    \o <<"text@367:77-373:70">> \o Token("PROP_TAG")
    \o <<"text@373:84-378:27">> \o Token("DIM_LENGTH")
    \o <<"text@378:43-379:26">> \o Token("DIM_WIDTH")
    \o <<"text@379:41-380:26">> \o Token("DIM_HEIGHT")
    \o <<"text@380:42-381:30">> \o Token("DIM_WB")
    \o <<"text@381:42-419:0">>

\* ctx of main
ContextOfMain(now, model_name, kind_fr, specs, propulsion) ==
    <<[k |-> "MODEL", v |-> Str_(model_name)],
      [k |-> "KIND_FR", v |-> Str_(kind_fr)],
      [k |-> "ZERO100", v |-> Float_(specs.zero100)],
      [k |-> "VMAX", v |-> Int_(specs.vmax)],
      [k |-> "POWER_HP", v |-> Int_(specs.power_hp)],
      [k |-> "AUTONOMY", v |-> Int_(specs.autonomy)],
      [k |-> "SEATS", v |-> Int_(specs.seats)],
      [k |-> "DIM_LENGTH", v |-> Float_(specs.dims.length)],
      [k |-> "DIM_WIDTH", v |-> Float_(specs.dims.width)],
      [k |-> "DIM_HEIGHT", v |-> Float_(specs.dims.height)],
      [k |-> "DIM_WB", v |-> Float_(specs.dims.wheelbase)],
      [k |-> "IMG01", v |-> Str_(<<"/images/">> \o ImageName(now, model_name, 1))],
      [k |-> "IMG02", v |-> Str_(<<"/images/">> \o ImageName(now, model_name, 2))],
      [k |-> "IMG03", v |-> Str_(<<"/images/">> \o ImageName(now, model_name, 3))],
      [k |-> "PROP_TAG", v |-> Str_(<<propulsion.tag>>)],
      [k |-> "PROP_DESC", v |-> Str_(<<propulsion.desc>>)],
      [k |-> "PROP_EMOJI", v |-> Str_(<<propulsion.emoji>>)]>>

KindFr(car_type, fm) ==
    <<IF car_type = "sport" THEN "supercar" ELSE "berline de luxe">>
        \o (IF fm THEN <<" (proto 2045+)">> ELSE <<>>)

\* make_card_block(...): the card of a run, its leading newline kept, its
\* trailing white space stripped
make_card_block(article_rel, img_rel, title, meta_tag, dt, prop_tag, prop_emoji) ==
    RStrip(<<"\n      ", "<article class=card><a href=">> \o article_rel
           \o <<" aria-label=Lire : ">> \o title \o <<"><img src=">> \o img_rel
           \o <<" alt=">> \o title \o <<"><span class=badge>", prop_emoji, " ", prop_tag,
                "</span></a><h2>">> \o title \o <<"</h2><p>Concept ", prop_tag,
                "</p><div class=meta><span>">> \o format_date_fr(dt)
           \o <<"</span><span>", meta_tag, "</span></div><a href=">> \o article_rel
           \o <<">Lire</a></article>", "\n    ">>)

\* card of main
CardOfMain(now, model_name, specs, propulsion) ==
    make_card_block(<<"/articles/">> \o ArticleName(now, model_name),
                    <<"/images/">> \o ImageName(now, model_name, 1),
                    model_name \o <<" - Concept Car">>,
                    specs.tag, now, propulsion.tag, propulsion.emoji)

----------------------------------------------------------------------------
(* The image service and the file system *)

Views == <<"front", "rear", "interior">>

\* prompt_front, prompt_rear, prompt_interior: the view, the body of the
\* category and the code name; paint, backdrop and hints are not followed
Prompt(k, car_type, model_name) ==
    <<Views[k], car_type, "Vehicle codename: ">> \o model_name

\* what res.data[0].b64_json can be: base64 text, text with a wrong padding, None
Payloads == {"aW1n", "abc", "<None>"}
\* base64.b64decode(b64) returns: a wrong padding raises binascii.Error, None
\* raises TypeError
ValidB64(b64) == b64 \notin {"abc", "<None>"}
\* base64.b64decode(b64), b64 valid
B64Decode(b64) == "img"

\* what gen_image_b64 can do: return a payload, or raise
Responses == [ok : {TRUE}, b64_json : Payloads] \cup {[ok |-> FALSE, b64_json |-> "<None>"]}

\* path.write_bytes / path.write_text: the file is created or replaced
WriteFile(dir, name, content) ==
    {f \in dir : f.name # name} \cup {[name |-> name, content |-> content]}

Names(dir) == {f.name : f \in dir}
ContentOf(dir, name) == (CHOOSE f \in dir : f.name = name).content

\* values of the environment variable OPENAI_API_KEY
ApiKeys == {"<unset>", "", "sk-key"}

\* variant: the credential is not tested
KeyNeverMissing(key) == FALSE

\* not os.getenv("OPENAI_API_KEY")
KeyMissing(key) == key \in {"<unset>", ""}

----------------------------------------------------------------------------
(* main, step by step.  A step ends where main waits for the image service   *)
(* or where another invocation can see or change the file it works on.      *)

\* the invocations of main: two, as many as a race on the index file needs
Procs == {1, 2}
\* the local variables of main before they are assigned
NoNow == [year |-> 0, month |-> 0, day |-> 0]
NoSheet == [zero100 |-> 0, vmax |-> 0, power_hp |-> 0, autonomy |-> 0, seats |-> 0,
            tag |-> "", dims |-> [length |-> 0, width |-> 0, height |-> 0, wheelbase |-> 0]]
NoPropulsion == [tag |-> "", desc |-> "", emoji |-> ""]

IdleProc == [pc |-> "idle", key |-> "<unset>", now |-> NoNow, model_name |-> <<>>,
             specs |-> NoSheet, propulsion |-> NoPropulsion, k |-> 0, html |-> <<>>,
             error |-> ""]

Ended == {"exit", "failed", "done"}

\* the documents INDEX_FILE may hold before the first run
FeedDoc == <<"<html>">> \o FEED_START \o <<"<old card>">> \o FEED_END \o <<"</html>">>
InitialIndexes == {NoFile, FeedDoc, <<"<html>">> \o FEED_START \o <<"</html>">>}

\* an override template that shows the name and the first image only
CustomTemplate == <<"<h1>">> \o Token("MODEL") \o <<"</h1><img src=">> \o Token("IMG01")
                    \o <<">">>

IdleMain ==
    /\ template = NoFile
    /\ dirs = {}
    /\ images = {}
    /\ articles = {}
    /\ future = FALSE
    /\ proc = [p \in Procs |-> IdleProc]
    /\ wrote = [p \in Procs |-> {}]
    /\ issued = [p \in Procs |-> <<>>]
    /\ feed = <<>>
    /\ nruns = 0

NoCall == [status |-> "none", card |-> <<>>, before |-> <<>>]
NoRender == [status |-> "none", tpl |-> <<>>, ctx |-> <<>>, out |-> <<>>]
NoSpecs == [status |-> "none", car_type |-> "sport", fm |-> FALSE, specs |-> NoSheet]

Init ==
    /\ index \in InitialIndexes
    /\ template \in {NoFile, CustomTemplate}
    /\ dirs = {}
    /\ images = {}
    /\ articles = {}
    /\ future \in BOOLEAN
    /\ proc = [p \in Procs |-> IdleProc]
    /\ wrote = [p \in Procs |-> {}]
    /\ issued = [p \in Procs |-> <<>>]
    /\ feed = <<>>
    /\ nruns = 0
    /\ call = NoCall
    /\ ncalls = 0
    /\ rcall = NoRender
    /\ scall = NoSpecs

Path(dir, name) == [dir |-> dir, name |-> name]

\* main up to the first image request: the credential test, ensure_dirs, the
\* clock, the name, the sheet, the propulsion
Begin(p) ==
    /\ proc[p].pc \in {"idle"} \cup Ended
    /\ nruns < MaxRuns
    /\ nruns' = nruns + 1
    /\ wrote' = [wrote EXCEPT ![p] = {}]
    /\ issued' = [issued EXCEPT ![p] = <<>>]
    /\ \E key \in ApiKeys :
        IF KeyMissing(key)
        THEN /\ proc' = [proc EXCEPT ![p] = [IdleProc EXCEPT !.pc = "exit", !.key = key,
                                   !.error = "OPENAI_API_KEY manquante"]]
             /\ UNCHANGED dirs
        ELSE /\ dirs' = dirs \cup {"images", "articles", "templates"}
             /\ \E now \in Clock :
                \E draw \in DrawsOfMain(CarTypeOf(now), future) :
                    proc' = [proc EXCEPT ![p] =
                                [pc |-> "request", key |-> key, now |-> now,
                                 model_name |-> draw.model_name, specs |-> draw.specs,
                                 propulsion |-> draw.propulsion, k |-> 1, html |-> <<>>,
                                 error |-> ""]]
    /\ UNCHANGED <<index, template, images, articles, future, feed>>

\* variant: the request for the next view is sent along with the current one
RequestImageFanOut(p) ==
    /\ proc[p].pc = "request"
    /\ issued' = [issued EXCEPT ![p] =
                    IF proc[p].k < Len(Views)
                    THEN @ \o <<Prompt(proc[p].k, CarTypeOf(proc[p].now), proc[p].model_name),
                                Prompt(proc[p].k + 1, CarTypeOf(proc[p].now), proc[p].model_name)>>
                    ELSE @]
    /\ proc' = [proc EXCEPT ![p].pc = "wait"]
    /\ UNCHANGED <<fsvars, future, wrote, feed, nruns>>

\* gen_image_b64(p_k) up to the request: client.images.generate is called
RequestImage(p) ==
    /\ proc[p].pc = "request"
    /\ issued' = [issued EXCEPT ![p] =
                    Append(@, Prompt(proc[p].k, CarTypeOf(proc[p].now), proc[p].model_name))]
    /\ proc' = [proc EXCEPT ![p].pc = "wait"]
    /\ UNCHANGED <<fsvars, future, wrote, feed, nruns>>

\* variant: a request that raised is issued again
ImageResponseRetry(p) ==
    /\ proc[p].pc = "wait"
    /\ Len(issued[p]) <= Len(Views)
    /\ proc' = [proc EXCEPT ![p].pc = "request"]
    /\ UNCHANGED <<fsvars, future, wrote, issued, feed, nruns>>

\* variant: a failed image is skipped and the run goes on
ImageResponseSkip(p) ==
    /\ proc[p].pc = "wait"
    /\ proc' = [proc EXCEPT ![p].pc = IF proc[p].k < Len(Views) THEN "request" ELSE "render",
                            ![p].k = IF proc[p].k < Len(Views) THEN proc[p].k + 1 ELSE proc[p].k]
    /\ UNCHANGED <<fsvars, future, wrote, issued, feed, nruns>>

\* the answer to request k arrives: gen_image_b64 returns or raises, then
\* save_b64 decodes and writes image k
ImageResponse(p) ==
    /\ proc[p].pc = "wait"
    /\ \E res \in Responses :
        LET k == proc[p].k
            name == ImageName(proc[p].now, proc[p].model_name, k)
        IN  IF ~res.ok
            THEN /\ proc' = [proc EXCEPT ![p].pc = "failed", ![p].error = "image request"]
                 /\ UNCHANGED <<images, wrote>>
            ELSE IF ~ValidB64(res.b64_json)
            THEN /\ proc' = [proc EXCEPT ![p].pc = "failed", ![p].error = "image decode"]
                 /\ UNCHANGED <<images, wrote>>
            ELSE /\ images' = WriteFile(images, name, B64Decode(res.b64_json))
                 /\ wrote' = [wrote EXCEPT ![p] = @ \cup {Path("images", name)}]
                 /\ proc' = [proc EXCEPT ![p].pc = IF k < Len(Views) THEN "request" ELSE "render",
                                         ![p].k = IF k < Len(Views) THEN k + 1 ELSE k]
    /\ UNCHANGED <<index, template, dirs, articles, future, issued, feed, nruns>>

\* the template is read, the article rendered and written
RenderArticle(p) ==
    /\ proc[p].pc = "render"
    /\ LET now == proc[p].now
           tpl == IF template # NoFile THEN template ELSE DEFAULT_TEMPLATE
           ctx == ContextOfMain(now, proc[p].model_name,
                                KindFr(CarTypeOf(now), future), proc[p].specs,
                                proc[p].propulsion)
           name == ArticleName(now, proc[p].model_name)
       IN  /\ articles' = WriteFile(articles, name, render(tpl, ctx))
           /\ wrote' = [wrote EXCEPT ![p] = @ \cup {Path("articles", name)}]
    /\ proc' = [proc EXCEPT ![p].pc = "index"]
    /\ UNCHANGED <<index, template, dirs, images, future, issued, feed, nruns>>

CardOf(p) == CardOfMain(proc[p].now, proc[p].model_name, proc[p].specs, proc[p].propulsion)

\* variant: the index file is read without the test that it exists
ReadIndexUnguarded(p) ==
    /\ proc[p].pc = "index"
    /\ IF index = NoFile
       THEN proc' = [proc EXCEPT ![p].pc = "failed", ![p].error = "FileNotFoundError"]
       ELSE IF MarkersMissing(index)
       THEN proc' = [proc EXCEPT ![p].pc = "failed", ![p].error = "Marqueurs FEED introuvables"]
       ELSE proc' = [proc EXCEPT ![p].pc = "index_write",
                                 ![p].html = NewHtml(index, CardOf(p))]
    /\ UNCHANGED <<fsvars, future, wrote, issued, feed, nruns>>

\* INDEX_FILE.exists(), then insert_card_into_index up to new_html: the file
\* is read and the markers are looked for
ReadIndex(p) ==
    /\ proc[p].pc = "index"
    /\ IF index = NoFile
       THEN proc' = [proc EXCEPT ![p].pc = "done"]
       ELSE IF MarkersMissing(index)
       THEN proc' = [proc EXCEPT ![p].pc = "failed", ![p].error = "Marqueurs FEED introuvables"]
       ELSE proc' = [proc EXCEPT ![p].pc = "index_write",
                                 ![p].html = NewHtml(index, CardOf(p))]
    /\ UNCHANGED <<fsvars, future, wrote, issued, feed, nruns>>

\* index_path.write_text(new_html): the file is opened for writing, which empties it
OpenIndexForWrite(p) ==
    /\ proc[p].pc = "index_write"
    /\ index' = <<>>
    /\ proc' = [proc EXCEPT ![p].pc = "index_flush"]
    /\ UNCHANGED <<template, dirs, images, articles, future, wrote, issued, feed, nruns>>

\* index_path.write_text(new_html): the text is written and the file closed
WriteIndex(p) ==
    /\ proc[p].pc = "index_flush"
    /\ index' = proc[p].html
    /\ wrote' = [wrote EXCEPT ![p] = @ \cup {Path("", <<"index.html">>)}]
    /\ feed' = Append(feed, CardOf(p))
    /\ proc' = [proc EXCEPT ![p].pc = "done"]
    /\ UNCHANGED <<template, dirs, images, articles, future, issued, nruns>>

Step(p) ==
    /\ \/ Begin(p)
       \/ RequestImage(p)
       \/ ImageResponse(p)
       \/ RenderArticle(p)
       \/ ReadIndex(p)
       \/ OpenIndexForWrite(p)
       \/ WriteIndex(p)
    /\ UNCHANGED <<call, ncalls, rcall, scall>>

Running(p) == proc[p].pc \notin {"idle"} \cup Ended

\* invocations of main one after another: the next starts when the last has ended
Next == Step(1)

Spec == Init /\ [][Next]_vars

\* invocations of main that overlap, one per process, on a well-formed index
InitConc ==
    /\ index = FeedDoc
    /\ template = NoFile
    /\ dirs = {}
    /\ images = {}
    /\ articles = {}
    /\ future \in BOOLEAN
    /\ proc = [p \in Procs |-> IdleProc]
    /\ wrote = [p \in Procs |-> {}]
    /\ issued = [p \in Procs |-> <<>>]
    /\ feed = <<>>
    /\ nruns = 0
    /\ call = NoCall
    /\ ncalls = 0
    /\ rcall = NoRender
    /\ scall = NoSpecs

NextConc == \E p \in Procs : proc[p].pc \notin Ended /\ Step(p)

SpecConc == InitConc /\ [][NextConc]_vars

----------------------------------------------------------------------------
(* Direct calls of insert_card_into_index on arbitrary documents and cards *)

DocAtoms == {FEED_START[1], FEED_END[1], "x"}
CardAtoms == {FEED_START[1], FEED_END[1], "a"}
Docs == TextsUpTo(DocAtoms, MaxDoc)
CardTexts == TextsUpTo(CardAtoms, MaxCardLen)

InitInsert ==
    /\ index \in Docs
    /\ call = NoCall
    /\ ncalls = 0
    /\ IdleMain
    /\ rcall = NoRender
    /\ scall = NoSpecs

\* insert_card_into_index(INDEX_FILE, card_html), start to end
InsertCardCall(card_html) ==
    /\ ncalls < MaxCalls
    /\ ncalls' = ncalls + 1
    /\ LET html == index IN
       IF MarkersMissing(html)
       THEN /\ call' = [status |-> "error", card |-> card_html, before |-> html]
            /\ UNCHANGED index
       ELSE /\ index' = NewHtml(html, card_html)
            /\ call' = [status |-> "ok", card |-> card_html, before |-> html]
    /\ UNCHANGED <<template, dirs, images, articles, future, proc, wrote, issued,
                   feed, nruns, rcall, scall>>

NextInsert == \E c \in CardTexts : InsertCardCall(c)

SpecInsert == InitInsert /\ [][NextInsert]_vars

----------------------------------------------------------------------------
(* Direct calls of render on arbitrary templates and contexts *)

\* what the templates are made of: text, a name, halves of a placeholder,
\* placeholders of the keys A and B and of a key Z no context has
Pieces == {<<"x">>, <<"B">>, <<"{", "{">>, <<"{", "{", " ">>, <<" ", "}", "}">>,
           <<" ", "B", " ", "}", "}">>, Token("A"), Token("B"), Token("Z")}

RECURSIVE Join(_)
Join(ps) == IF ps = <<>> THEN <<>> ELSE Head(ps) \o Join(Tail(ps))

Templates == {Join(ps) : ps \in TextsUpTo(Pieces, MaxPieces)}

\* the values of a context: strings (empty, plain, with a leading space, a
\* name, a placeholder) and a number
Values == {Str_(<<>>), Str_(<<"x">>), Str_(<<" ", "B">>), Str_(<<"B">>),
           Str_(Token("B")), Int_(7)}

\* dicts over the keys A and B, as their items in insertion order
Contexts ==
    {<<>>}
    \cup {<<[k |-> key, v |-> v]>> : key \in {"A", "B"}, v \in Values}
    \cup {<<[k |-> ks[1], v |-> v], [k |-> ks[2], v |-> w]>> :
            ks \in {<<"A", "B">>, <<"B", "A">>}, v \in Values, w \in Values}

InitRender ==
    /\ rcall \in [status : {"none"}, tpl : Templates, ctx : Contexts, out : {<<>>}]
    /\ index = NoFile
    /\ call = NoCall
    /\ ncalls = 0
    /\ IdleMain
    /\ scall = NoSpecs

\* render(tpl, ctx)
RenderCall ==
    /\ rcall.status = "none"
    /\ rcall' = [rcall EXCEPT !.status = "done", !.out = render(rcall.tpl, rcall.ctx)]
    /\ UNCHANGED <<mainvars, call, ncalls, scall>>

NextRender == RenderCall

SpecRender == InitRender /\ [][NextRender]_vars

----------------------------------------------------------------------------
(* Direct calls of random_specs *)

InitSpecs ==
    /\ scall \in [status : {"none"}, car_type : CarTypes, fm : BOOLEAN, specs : {NoSheet}]
    /\ index = NoFile
    /\ call = NoCall
    /\ ncalls = 0
    /\ IdleMain
    /\ rcall = NoRender

\* random_specs(car_type) under FUTURE_MODE = fm
RandomSpecsCall ==
    /\ scall.status = "none"
    /\ \E sheet \in random_specs(scall.car_type, scall.fm) :
          scall' = [scall EXCEPT !.status = "done", !.specs = sheet]
    /\ UNCHANGED <<mainvars, call, ncalls, rcall>>

NextSpecs == RandomSpecsCall

SpecSpecs == InitSpecs /\ [][NextSpecs]_vars

----------------------------------------------------------------------------
(* Claims about insert_card_into_index *)

\* positions at which pat occurs in s
Occurrences(s, pat) == {i \in 0..Len(s) : IsAt(s, pat, i)}

\* the start marker is absent, or the end marker is, or the end marker comes first
BadMarkers(doc) ==
    \/ Occurrences(doc, FEED_START) = {}
    \/ Occurrences(doc, FEED_END) = {}
    \/ \E e \in Occurrences(doc, FEED_END) :
            \A s \in Occurrences(doc, FEED_START) : e < s

\* C1: a call on a document whose start marker is absent, or whose end marker
\* is absent, or whose end marker comes before the start marker, fails and
\* leaves the index file exactly as it was.
C1_FailsWithoutWrite ==
    (call.status # "none" /\ BadMarkers(call.before))
        => (call.status = "error" /\ index = call.before)

\* a call failed on a document that holds both markers, the end marker first
C1_Witness ==
    /\ call.status = "error"
    /\ Occurrences(call.before, FEED_START) # {}
    /\ Occurrences(call.before, FEED_END) # {}
    /\ index = call.before

\* the document split at the end of its first start marker
PrefixThroughStart(doc) ==
    LET s == CHOOSE i \in Occurrences(doc, FEED_START) :
                \A j \in Occurrences(doc, FEED_START) : i <= j
    IN  SubSeq(doc, 1, s + 1)
RestAfterStart(doc) ==
    SubSeq(doc, Len(PrefixThroughStart(doc)) + 1, Len(doc))

\* C2 as stated: after a successful call the card stands immediately after the
\* start marker, between the unchanged prefix and the unchanged rest.
C2_CardImmediatelyAfterStart ==
    call.status = "ok" =>
        index = PrefixThroughStart(call.before) \o call.card
                    \o RestAfterStart(call.before)

\* C2 amended: after a successful call the document is the original text up to
\* and including the first start marker, then a newline and six spaces, then
\* the card, then everything that followed the start marker, unchanged.
C2_CardAfterStartAndIndent ==
    call.status = "ok" =>
        index = PrefixThroughStart(call.before) \o <<"\n      ">> \o call.card
                    \o RestAfterStart(call.before)

\* a successful call with a non-empty card on a document with text between
\* and around the markers
C2_Witness ==
    /\ call.status = "ok"
    /\ call.card # <<>>
    /\ Len(call.before) > 2
    /\ Len(index) = Len(call.before) + 1 + Len(call.card)

----------------------------------------------------------------------------
(* Claims about runs of main *)

Last(t) == t[Len(t)]
Front(t) == SubSeq(t, 1, Len(t) - 1)

\* the cards of a feed history, the most recent first, each behind its indentation
RECURSIVE NewestFirst(_)
NewestFirst(history) ==
    IF history = <<>> THEN <<>>
    ELSE <<"\n      ">> \o Last(history) \o NewestFirst(Front(history))

\* the document doc after the cards of history were inserted, one run at a time
FeedAfter(doc, history) ==
    PrefixThroughStart(doc) \o NewestFirst(history) \o RestAfterStart(doc)

\* C3: after any sequence of sequential runs, the cards of the successful ones
\* stand behind the start marker, the most recent first, each earlier card in
\* its order behind it, none removed, merged or cut, before the old content.
C3_MostRecentFirst ==
    ((\A p \in Procs : ~Running(p)) /\ feed # <<>>)
        => \E doc \in InitialIndexes \ {NoFile} :
              /\ ~BadMarkers(doc)
              /\ index = FeedAfter(doc, feed)

\* two runs have put two different cards into the index
C3_Witness ==
    /\ \A p \in Procs : ~Running(p)
    /\ Len(feed) >= 2
    /\ feed[1] # feed[2]
    /\ index = FeedAfter(FeedDoc, feed)

\* this step starts a run of p
Starts(p) == nruns' = nruns + 1 /\ proc'[p] # proc[p]

\* C4: a run started without the credential (unset or empty) exits at once and
\* has no side effect: no directory made, no request issued, no file of the
\* images, the articles, the templates or the index written; after the exit
\* the run takes no further step.
C4_NoKeyNoSideEffect ==
    [][\A p \in Procs :
          /\ (Starts(p) /\ proc'[p].key \in {"<unset>", ""})
                => /\ proc'[p].pc = "exit"
                   /\ UNCHANGED <<index, template, dirs, images, articles>>
                   /\ issued'[p] = <<>>
                   /\ wrote'[p] = {}
          /\ (proc[p].pc = "exit" /\ proc'[p] # proc[p]) => Starts(p)]_vars

\* a run has exited for want of the credential and nothing is on disk
C4_Witness ==
    \E p \in Procs :
        /\ proc[p].pc = "exit"
        /\ proc[p].key = ""
        /\ dirs = {} /\ images = {} /\ articles = {}

ImageErrors == {"image request", "image decode"}

ImagePaths(p, n) == {Path("images", ImageName(proc[p].now, proc[p].model_name, k)) : k \in 1..n}
ArticlePath(p) == Path("articles", ArticleName(proc[p].now, proc[p].model_name))
IndexPath == Path("", <<"index.html">>)

OnDisk(path) ==
    CASE path.dir = "images" -> path.name \in Names(images)
      [] path.dir = "articles" -> path.name \in Names(articles)
      [] OTHER -> index # NoFile

\* C5: no retry, no rollback.  A run whose k-th image fails has issued requests
\* 1..k once each and has written images 1..k-1 and nothing else; a run whose
\* index insertion fails has written the three images and the article and not
\* the index; what a failed run wrote is still on disk; a failed run takes no
\* further step.
C5_NoRetryNoRollback ==
    /\ [](\A p \in Procs :
            /\ Len(issued[p]) <= Len(Views)
            /\ \A i \in 1..Len(issued[p]) : issued[p][i][1] = Views[i]
            /\ (proc[p].pc = "failed" /\ proc[p].error \in ImageErrors)
                  => /\ Len(issued[p]) = proc[p].k
                     /\ wrote[p] = ImagePaths(p, proc[p].k - 1)
            /\ (proc[p].pc = "failed" /\ proc[p].error \notin ImageErrors)
                  => /\ Len(issued[p]) = Len(Views)
                     /\ wrote[p] = ImagePaths(p, Len(Views)) \cup {ArticlePath(p)}
            /\ proc[p].pc = "failed" => \A f \in wrote[p] : OnDisk(f))
    /\ [][\A p \in Procs :
            (proc[p].pc = "failed" /\ proc'[p] # proc[p]) => Starts(p)]_vars

\* a run failed at its third image, after a payload that does not decode, with
\* the first two images written and on disk
C5_Witness ==
    \E p \in Procs :
        /\ proc[p].pc = "failed"
        /\ proc[p].error = "image decode"
        /\ proc[p].k = Len(Views)
        /\ wrote[p] = ImagePaths(p, 2)
        /\ \A f \in wrote[p] : OnDisk(f)

ImageFailed(p) == proc[p].pc = "failed" /\ proc[p].error \in ImageErrors

\* the image names a text refers to: what stands between "/images/" and ".png"
ImageRefs(html) ==
    {SubSeq(html, i + 1, j) : <<i, j>> \in
        {ij \in (1..Len(html)) \X (1..Len(html)) :
            /\ html[ij[1]] = "/images/"
            /\ ij[1] < ij[2]
            /\ html[ij[2]] = IMAGE_EXT[1]
            /\ \A m \in (ij[1] + 1)..(ij[2] - 1) : html[m] # IMAGE_EXT[1]}}

\* C6 as stated, of each run cut short by the image fetcher: the article this
\* run wrote is on disk and refers to an image that is not.
C6_ArticleWithMissingImage ==
    \A p \in Procs :
        ImageFailed(p) =>
            /\ ArticlePath(p) \in wrote[p]
            /\ \E n \in ImageRefs(ContentOf(articles, ArticlePath(p).name)) :
                  n \notin Names(images)

\* C6 amended: a run writes its article only after its three images, so a run
\* cut short by the image fetcher has written no article and left the index
\* alone: it leaves images 1..k-1 and nothing that refers to the missing ones.
C6_NoArticleBeforeImages ==
    \A p \in Procs :
        /\ (\E f \in wrote[p] : f.dir # "images") => ImagePaths(p, Len(Views)) \subseteq wrote[p]
        /\ ImageFailed(p) => \A f \in wrote[p] : f.dir = "images"

\* a run was cut short at its second image: one image written, no article
C6_Witness ==
    \E p \in Procs :
        /\ ImageFailed(p)
        /\ proc[p].k = 2
        /\ wrote[p] = ImagePaths(p, 1)
        /\ ArticlePath(p).name \notin Names(articles)

\* C7: two overlapping runs with different cards that both finish.  The index
\* then holds what the last writer made of the text it had read: its own card
\* first, and the other run's card only if it read after the other had written.
C7_LastWriterWins ==
    \A p, q \in Procs :
        (p # q /\ proc[p].pc = "done" /\ proc[q].pc = "done"
            /\ CardOf(p) # CardOf(q) /\ feed = <<CardOf(p), CardOf(q)>>)
        => /\ index = proc[q].html
           /\ index \in {FeedAfter(FeedDoc, <<CardOf(p), CardOf(q)>>),
                         FeedAfter(FeedDoc, <<CardOf(q)>>)}

\* the lost update: both runs are done, each wrote its card, and the index
\* holds the card of one of them only
C7_Witness ==
    \E p, q \in Procs :
        /\ p # q /\ proc[p].pc = "done" /\ proc[q].pc = "done"
        /\ CardOf(p) # CardOf(q)
        /\ feed = <<CardOf(p), CardOf(q)>>
        /\ IndexPath \in wrote[p] /\ IndexPath \in wrote[q]
        /\ index = FeedAfter(FeedDoc, <<CardOf(q)>>)
        /\ Find(index, CardOf(p)) = -1

\* the files of a finished run: three images and one article under one prefix
SharedPrefixFiles(p) ==
    \E prefix \in {Front(f.name) : f \in {g \in wrote[p] : g.dir = "articles"}} :
        /\ {f \in wrote[p] : f.dir = "articles"} = {Path("articles", prefix \o <<".html">>)}
        /\ {f \in wrote[p] : f.dir = "images"}
              = {Path("images", prefix \o <<n, ".png">>) : n \in {"-01", "-02", "-03"}}
        /\ Cardinality({f \in wrote[p] : f.dir = "images"}) = 3
        /\ prefix = DatePrefix(proc[p].now) \o <<"-">> \o slugify(proc[p].model_name)

ArticleRefsOwnImages(p) ==
    ImageRefs(ContentOf(articles, ArticlePath(p).name))
        = {f.name : f \in {g \in wrote[p] : g.dir = "images"}}

\* C8 as stated: a finished run wrote three images and one article under one
\* <date>-<slug> prefix, and the article refers to exactly these three images.
C8_FilesAndReferences ==
    \A p \in Procs :
        proc[p].pc = "done" => (SharedPrefixFiles(p) /\ ArticleRefsOwnImages(p))

\* C8 amended: a finished run wrote three images and one article under one
\* <date>-<slug> prefix; when no override template exists, the article refers
\* to exactly these three images.
C8_FilesAndDefaultReferences ==
    \A p \in Procs :
        proc[p].pc = "done" =>
            /\ SharedPrefixFiles(p)
            /\ template = NoFile => ArticleRefsOwnImages(p)

\* a run finished under the built-in template; its article names three images
C8_Witness ==
    \E p \in Procs :
        /\ proc[p].pc = "done"
        /\ template = NoFile
        /\ Cardinality(ImageRefs(ContentOf(articles, ArticlePath(p).name))) = 3
        /\ Cardinality(wrote[p]) >= 4

----------------------------------------------------------------------------
(* Claims about render *)

\* the value a context maps key to, or none
Lookup(ctx, key) == {Str(ctx[i].v) : i \in {j \in 1..Len(ctx) : ctx[j].k = key}}

\* a placeholder of a key of ctx stands in tpl at position i
KeyAt(tpl, ctx, i) == {j \in 1..Len(ctx) : IsAt(tpl, Token(ctx[j].k), i)}

\* tpl from position i on with every placeholder of a key of ctx replaced by the
\* string of its value in one pass, all else kept
RECURSIVE OnePass(_, _, _)
OnePass(tpl, ctx, i) ==
    IF i >= Len(tpl) THEN <<>>
    ELSE IF KeyAt(tpl, ctx, i) # {}
         THEN Str(ctx[CHOOSE j \in KeyAt(tpl, ctx, i) : TRUE].v)
                \o OnePass(tpl, ctx, i + Len(Token("A")))
         ELSE <<tpl[i + 1]>> \o OnePass(tpl, ctx, i + 1)

\* C9 as stated: render gives the template with every placeholder of a key of
\* the context replaced by the string of its value and all else unchanged.
C9_EveryPlaceholderReplaced ==
    rcall.status = "done" => rcall.out = OnePass(rcall.tpl, rcall.ctx, 0)

IsName(a) == a \notin {"{", "}", " "}

\* no value's string is empty, starts with a space or holds a brace
PlainValues(ctx) ==
    \A j \in 1..Len(ctx) :
        LET v == Str(ctx[j].v)
        IN  v # <<>> /\ v[1] # " " /\ \A m \in 1..Len(v) : v[m] \notin {"{", "}"}

\* every "{{ " of the template opens a placeholder "{{ NAME }}"
CleanTemplate(tpl) ==
    \A i \in Occurrences(tpl, <<"{", "{", " ">>) :
        /\ i + Len(Token("A")) <= Len(tpl)
        /\ IsName(tpl[i + 4])
        /\ IsAt(tpl, Token(tpl[i + 4]), i)

\* C9 amended: when every "{{ " of the template opens a placeholder and no
\* value's string is empty, starts with a space or holds a brace, render gives
\* the template with every placeholder of a key of the context replaced by the
\* string of its value, and all else, placeholders of other keys too, unchanged.
C9_PlainValuesReplaced ==
    (rcall.status = "done" /\ CleanTemplate(rcall.tpl) /\ PlainValues(rcall.ctx))
        => rcall.out = OnePass(rcall.tpl, rcall.ctx, 0)

\* render was called on a clean template that holds a key's placeholder twice
\* and the placeholder of an absent key, with plain values
C9_Witness ==
    /\ rcall.status = "done"
    /\ rcall.tpl = Token("A") \o Token("A") \o Token("Z")
    /\ CleanTemplate(rcall.tpl) /\ PlainValues(rcall.ctx)
    /\ rcall.out = <<"x", "x">> \o Token("Z")

----------------------------------------------------------------------------
(* Claims about random_specs; decimal numbers in thousandths *)

Between(x, lo, hi) == lo <= x /\ x <= hi
OneDecimal(x) == x % 100 = 0
TwoDecimals(x) == x % 10 = 0

\* seats and tag depend on the category alone
FixedPerCategory(c) ==
    /\ c.specs.seats = (IF c.car_type = "sport" THEN 2 ELSE 4)
    /\ c.specs.tag = (IF c.car_type = "sport" THEN "Supercar" ELSE "Berline")

\* C10 as stated: the acceleration is in [2.6, 3.2] s for sport and in
\* [3.8, 4.8] s for berline, with one decimal; seats and tag are fixed per
\* category.
C10_StatedIntervals ==
    scall.status = "done" =>
        /\ OneDecimal(scall.specs.zero100)
        /\ IF scall.car_type = "sport"
           THEN Between(scall.specs.zero100, 2600, 3200)
           ELSE Between(scall.specs.zero100, 3800, 4800)
        /\ FixedPerCategory(scall)

DimsInIntervals(d) ==
    /\ Between(d.length, 4700, 5150) /\ TwoDecimals(d.length)
    /\ Between(d.width, 1920, 2060) /\ TwoDecimals(d.width)
    /\ Between(d.height, 1170, 1400) /\ TwoDecimals(d.height)
    /\ Between(d.wheelbase, 2850, 3150) /\ TwoDecimals(d.wheelbase)

\* C10 amended: with FUTURE_MODE off, every sampled field is in the closed
\* interval of its category (acceleration in [2.6, 3.2] s for sport and in
\* [3.8, 4.8] s for berline, with one decimal); with FUTURE_MODE on, it is in
\* the closed interval of its category for that mode (acceleration in
\* [1.8, 2.4] s for sport and in [2.8, 3.6] s for berline, with two decimals);
\* the seat count is fixed per category, the tag per category and mode.
C10_IntervalsPerMode ==
    scall.status = "done" =>
        LET sp == scall.specs
            sport == scall.car_type = "sport"
        IN  /\ DimsInIntervals(sp.dims)
            /\ sp.seats = (IF sport THEN 2 ELSE 4)
            /\ IF ~scall.fm
               THEN /\ OneDecimal(sp.zero100)
                    /\ IF sport THEN Between(sp.zero100, 2600, 3200)
                                ELSE Between(sp.zero100, 3800, 4800)
                    /\ IF sport THEN Between(sp.vmax, 310, 340) ELSE Between(sp.vmax, 260, 300)
                    /\ IF sport THEN Between(sp.power_hp, 750, 900)
                                ELSE Between(sp.power_hp, 500, 680)
                    /\ Between(sp.autonomy, 700, 950)
                    /\ sp.tag = (IF sport THEN "Supercar" ELSE "Berline")
               ELSE /\ TwoDecimals(sp.zero100)
                    /\ IF sport THEN Between(sp.zero100, 1800, 2400)
                                ELSE Between(sp.zero100, 2800, 3600)
                    /\ IF sport THEN Between(sp.vmax, 360, 420) ELSE Between(sp.vmax, 310, 360)
                    /\ IF sport THEN Between(sp.power_hp, 1100, 1600)
                                ELSE Between(sp.power_hp, 800, 1100)
                    /\ Between(sp.autonomy, 950, 1200)
                    /\ sp.tag = (IF sport THEN "Hypercar" ELSE "Berline neo-luxe")

\* a berline sheet drawn with FUTURE_MODE off, its acceleration at the upper
\* end of the interval and off the lower end of its width
C10_Witness ==
    /\ scall.status = "done"
    /\ scall.car_type = "berline" /\ ~scall.fm
    /\ scall.specs.zero100 = 4800
    /\ scall.specs.dims.width = 1930

----------------------------------------------------------------------------
(* Claims about the order of the steps of a run *)

\* the image files a run has written so far
ImagesWritten(p) == {f \in wrote[p] : f.dir = "images"}

\* C11: within a run the requests are issued in the order front, rear,
\* interior, three at most; request n is issued only after images 1..n-1 were
\* written, and no image is written before its request; at most one request
\* is without its image at any time; the article and the index are written
\* only after the three requests were issued and the three images written.
C11_SequentialRequests ==
    \A p \in Procs :
        LET n == Len(issued[p])
        IN  /\ n <= Len(Views)
            /\ \A i \in 1..n : issued[p][i][1] = Views[i]
            /\ n > 0 => ImagePaths(p, n - 1) \subseteq wrote[p]
            /\ ImagesWritten(p) \subseteq ImagePaths(p, n)
            /\ n - Cardinality(ImagesWritten(p)) \in {0, 1}
            /\ (proc[p].pc = "wait") = (n - Cardinality(ImagesWritten(p)) = 1
                                          /\ proc[p].pc # "failed")
            /\ (\E f \in wrote[p] : f.dir # "images")
                  => (n = Len(Views) /\ ImagePaths(p, Len(Views)) \subseteq wrote[p])
            /\ proc[p].pc \in {"render", "index", "index_write", "index_flush"}
                  => ImagePaths(p, Len(Views)) \subseteq wrote[p]

\* the third request is outstanding: the first two images are written, the
\* third is not, and neither is the article
C11_Witness ==
    \E p \in Procs :
        /\ proc[p].pc = "wait"
        /\ Len(issued[p]) = Len(Views)
        /\ issued[p][3][1] = "interior"
        /\ ImagesWritten(p) = ImagePaths(p, 2)
        /\ ArticlePath(p) \notin wrote[p]

\* the run is inside insert_card_into_index, or has left it by its error
InInsert(p) ==
    \/ proc[p].pc \in {"index_write", "index_flush"}
    \/ proc[p].pc = "failed" /\ proc[p].error \notin ImageErrors

\* C12: while the index file does not exist, no run is inside
\* insert_card_into_index or has failed in it, no run has written the index,
\* and a run that got past its images completes with its three images and its
\* article written and on disk; the step that skips the insertion changes no
\* file, and no step creates the index file.
C12_MissingIndexSkipped ==
    /\ [](index = NoFile =>
            \A p \in Procs :
                /\ ~InInsert(p)
                /\ IndexPath \notin wrote[p]
                /\ proc[p].pc = "failed" => proc[p].error \in ImageErrors
                /\ proc[p].pc = "done"
                      => /\ wrote[p] = ImagePaths(p, Len(Views)) \cup {ArticlePath(p)}
                         /\ \A f \in wrote[p] : OnDisk(f))
    /\ [][/\ index = NoFile => index' = NoFile
          /\ \A p \in Procs :
                /\ (proc[p].pc = "index" /\ proc'[p].pc # "index" /\ index = NoFile)
                      => /\ proc'[p].pc = "done"
                         /\ UNCHANGED <<fsvars, wrote, feed>>
                /\ (~InInsert(p) /\ InInsert(p)') => index # NoFile]_vars

\* a run has completed without an index file: its three images and its
\* article are on disk, the index file still does not exist
C12_Witness ==
    \E p \in Procs :
        /\ proc[p].pc = "done"
        /\ index = NoFile
        /\ wrote[p] = ImagePaths(p, Len(Views)) \cup {ArticlePath(p)}
        /\ \A f \in wrote[p] : OnDisk(f)
        /\ feed = <<>>

----------------------------------------------------------------------------
(* Claims about repeated insertions *)

\* the first position at which pat occurs in s, s holding pat
FirstOccurrence(s, pat) ==
    CHOOSE i \in Occurrences(s, pat) : \A j \in Occurrences(s, pat) : i <= j

\* the first start marker stands before the first end marker
StartBeforeEnd(doc) ==
    /\ Occurrences(doc, FEED_START) # {}
    /\ Occurrences(doc, FEED_END) # {}
    /\ FirstOccurrence(doc, FEED_START) < FirstOccurrence(doc, FEED_END)

\* C13: a successful insertion was made on a document whose first start marker
\* stands before its first end marker, and leaves a document of which the same
\* holds, with the first start marker where it was, whatever the card, marker
\* text included; so a call that follows a successful call does not fail.
C13_PreconditionPreserved ==
    /\ [](call.status = "ok" =>
            /\ StartBeforeEnd(call.before)
            /\ StartBeforeEnd(index)
            /\ FirstOccurrence(index, FEED_START)
                  = FirstOccurrence(call.before, FEED_START))
    /\ [][(call.status = "ok" /\ ncalls' = ncalls + 1) => call'.status = "ok"]_vars

\* a second insertion in a row succeeded, its card being the end marker's text
C13_Witness ==
    /\ call.status = "ok"
    /\ ncalls >= 2
    /\ call.card = FEED_END
    /\ Occurrences(call.before, INDENT) # {}
    /\ StartBeforeEnd(index)

====
